---- MODULE Spec2Model ----
(***************************************************************************)
(* card-builder: the corpus indexing engine of zhlearn.                    *)
(*                                                                         *)
(*   file_db.rs  FileDbWriter / FileDbReader, the append-only record store *)
(*   main.rs     parse_level, read_hsk, split_sentences, Hsk::analyze,     *)
(*               build_corpus, build_decks                                 *)
(*                                                                         *)
(* Text is a sequence of one-character strings.  Each character stands for *)
(* one grapheme cluster and one encoded byte.  "." "!" "?" stand for the   *)
(* three terminal marks of the sentence pattern of main.rs:109.            *)
(* An Option is a sequence of length 0 (None) or 1 (Some).                 *)
(***************************************************************************)
EXTENDS Integers, Sequences, FiniteSets, TLC

VARIABLES
  pc,          \* position of the running program
  hskFile,     \* rows of the lexicon file: <<Simplified, Level label>>
  corpusFile,  \* lines of the corpus files still to be read: [text, score]
  hsk,         \* the loaded Hsk: [phrases, levels]
  phrase_map,  \* PhraseFileIndex: PhraseIdx -> sequence of ranges
  byte_pos,    \* FileDbWriter.byte_pos
  file,        \* bytes of the store file (PHRASES_PATH)
  log,         \* history: one entry per FileDbWriter::write call
  entry,       \* history: the corpus line processed last and its analysis
  npush,       \* history: number of ranges pushed to phrase_map
  level,       \* build_decks: the level whose deck was built last
  deck,        \* build_decks: the pairs handed to build_card for that level
  input,       \* argument of the function under study (function specs)
  output       \* its result

vars == <<pc, hskFile, corpusFile, hsk, phrase_map, byte_pos, file, log,
          entry, npush, level, deck, input, output>>

None == <<>>
Some(x) == <<x>>

Min(a, b) == IF a < b THEN a ELSE b

RECURSIVE Concat(_)
Concat(ss) == IF ss = <<>> THEN <<>> ELSE Head(ss) \o Concat(Tail(ss))

Range(start, end) == [start |-> start, end |-> end]

(***************************************************************************)
(* serde_json encoding of a Snippet {prefix, sentence, suffix}             *)
(* (main.rs:139-144, written by file_db.rs:27).                            *)
(***************************************************************************)
Snippet(prefix, sentence, suffix) ==
  [prefix |-> prefix, sentence |-> sentence, suffix |-> suffix]

Quote == "\""
Backslash == "\\"
Newline == "\n"

json_null == <<"n", "u", "l", "l">>
KeyPrefix == <<Quote, "p", "r", "e", "f", "i", "x", Quote, ":">>
KeySentence == <<Quote, "s", "e", "n", "t", "e", "n", "c", "e", Quote, ":">>
KeySuffix == <<Quote, "s", "u", "f", "f", "i", "x", Quote, ":">>

format_escaped_char(c) ==
  IF c = Quote THEN <<Backslash, Quote>>
  ELSE IF c = Backslash THEN <<Backslash, Backslash>>
  ELSE IF c = Newline THEN <<Backslash, "n">>
  ELSE <<c>>

serialize_str(s) ==
  <<Quote>> \o Concat([i \in 1..Len(s) |-> format_escaped_char(s[i])]) \o <<Quote>>

\* Fault injection: an absent field is written as the empty string.
serialize_option_sentinel(o) ==
  IF o = None THEN <<Quote, Quote>> ELSE serialize_str(o[1])

serialize_option(o) ==
  IF o = None THEN json_null ELSE serialize_str(o[1])

to_writer(obj) ==
  <<"{">> \o KeyPrefix \o serialize_option(obj.prefix)
    \o <<",">> \o KeySentence \o serialize_str(obj.sentence)
    \o <<",">> \o KeySuffix \o serialize_option(obj.suffix) \o <<"}">>

(***************************************************************************)
(* serde_json decoding (file_db.rs:58) of the compact form above.  A       *)
(* parser result is [ok, val, next]; next is the position after the value. *)
(***************************************************************************)
Fail == [ok |-> FALSE, val |-> None, next |-> 0]

HasLit(b, pos, lit) ==
  /\ pos + Len(lit) - 1 <= Len(b)
  /\ SubSeq(b, pos, pos + Len(lit) - 1) = lit

RECURSIVE parse_str_body(_, _, _)
parse_str_body(b, pos, acc) ==
  IF pos > Len(b) THEN Fail
  ELSE IF b[pos] = Quote THEN [ok |-> TRUE, val |-> acc, next |-> pos + 1]
  ELSE IF b[pos] = Newline THEN Fail
  ELSE IF b[pos] = Backslash THEN
    IF pos + 1 > Len(b) THEN Fail
    ELSE IF b[pos + 1] = Quote THEN parse_str_body(b, pos + 2, Append(acc, Quote))
    ELSE IF b[pos + 1] = Backslash THEN parse_str_body(b, pos + 2, Append(acc, Backslash))
    ELSE IF b[pos + 1] = "n" THEN parse_str_body(b, pos + 2, Append(acc, Newline))
    ELSE Fail
  ELSE parse_str_body(b, pos + 1, Append(acc, b[pos]))

parse_str(b, pos) ==
  IF pos <= Len(b) /\ b[pos] = Quote THEN parse_str_body(b, pos + 1, <<>>) ELSE Fail

deserialize_option(b, pos) ==
  IF HasLit(b, pos, json_null)
  THEN [ok |-> TRUE, val |-> None, next |-> pos + Len(json_null)]
  ELSE LET s == parse_str(b, pos)
       IN IF s.ok THEN [ok |-> TRUE, val |-> Some(s.val), next |-> s.next] ELSE Fail

NoSnippet == Snippet(None, <<>>, None)
ReadErr == [ok |-> FALSE, val |-> NoSnippet]

from_slice(b) ==
  IF ~HasLit(b, 1, <<"{">> \o KeyPrefix) THEN ReadErr
  ELSE
    LET p == deserialize_option(b, 2 + Len(KeyPrefix))
    IN IF ~p.ok \/ ~HasLit(b, p.next, <<",">> \o KeySentence) THEN ReadErr
       ELSE
         LET s == parse_str(b, p.next + 1 + Len(KeySentence))
         IN IF ~s.ok \/ ~HasLit(b, s.next, <<",">> \o KeySuffix) THEN ReadErr
            ELSE
              LET x == deserialize_option(b, s.next + 1 + Len(KeySuffix))
              IN IF x.ok /\ HasLit(b, x.next, <<"}">>) /\ x.next = Len(b)
                 THEN [ok |-> TRUE, val |-> Snippet(p.val, s.val, x.val)]
                 ELSE ReadErr

(***************************************************************************)
(* FileDbWriter::write (file_db.rs:25-36) and FileDbReader::read           *)
(* (file_db.rs:52-59).  Records are shorter than the BufWriter's buffer,   *)
(* so the buffered write takes the whole of buf.                           *)
(***************************************************************************)
\* Fault injection: the cursor is not advanced past the record.
write_stuck(pos, f, obj) ==
  LET buf == to_writer(obj)
  IN [range |-> Range(pos, pos + Len(buf)), byte_pos |-> pos, file |-> f \o buf]

write(pos, f, obj) ==
  LET buf == to_writer(obj)
      start == pos
      len == Len(buf)
  IN [range |-> Range(start, start + len),
      byte_pos |-> pos + len,
      file |-> f \o buf]

read(f, range) ==
  from_slice(SubSeq(f, range.start + 1, Min(range.end, Len(f))))

(***************************************************************************)
(* parse_level (main.rs:25-38) and read_hsk (main.rs:69-88).               *)
(***************************************************************************)
Digits == <<"0", "1", "2", "3", "4", "5", "6", "7", "8", "9">>

IsDigit(c) == \E d \in 1..Len(Digits) : Digits[d] = c

DigitVal(c) == (CHOOSE d \in 1..Len(Digits) : Digits[d] = c) - 1

RECURSIVE DecimalVal(_)
DecimalVal(ds) ==
  IF ds = <<>> THEN 0
  ELSE 10 * DecimalVal(SubSeq(ds, 1, Len(ds) - 1)) + DigitVal(ds[Len(ds)])

\* str::parse::<usize>: an optional "+", then one or more decimal digits.
parse_usize(buf) ==
  LET ds == IF buf # <<>> /\ Head(buf) = "+" THEN Tail(buf) ELSE buf
  IN IF ds # <<>> /\ \A i \in 1..Len(ds) : IsDigit(ds[i])
     THEN [ok |-> TRUE, val |-> DecimalVal(ds)]
     ELSE [ok |-> FALSE, val |-> 0]

parse_level(buf) ==
  IF buf = <<"7", "-", "9">> THEN [ok |-> TRUE, val |-> 7] ELSE parse_usize(buf)

hsk_levels == 1..7

HskPhrase(simplified, lvl) == [simplified |-> simplified, level |-> lvl]

NoHsk == [phrases |-> <<>>, levels |-> <<>>]

SetMax(S) == CHOOSE m \in S : \A x \in S : x <= m

\* The per-level lookup: text -> PhraseIdx, over the phrases of that level
\* (collecting into a HashMap keeps the last index of a repeated key).
level_phrases(phrases, lvl) ==
  LET here == {i \in 1..Len(phrases) : phrases[i].level = lvl}
  IN [t \in {phrases[i].simplified : i \in here} |->
        SetMax({i \in here : phrases[i].simplified = t})]

read_hsk(rows) ==
  IF \E r \in 1..Len(rows) : ~parse_level(rows[r][2]).ok
  THEN [ok |-> FALSE, val |-> NoHsk]
  ELSE LET phrases == [r \in 1..Len(rows) |->
                         HskPhrase(rows[r][1], parse_level(rows[r][2]).val)]
       IN [ok |-> TRUE,
           val |-> [phrases |-> phrases,
                    levels |-> [l \in hsk_levels |-> level_phrases(phrases, l)]]]

(***************************************************************************)
(* split_sentences (main.rs:108-114).                                      *)
(***************************************************************************)
Terminal == {".", "!", "?"}
WhiteSpace == {" "}

\* Regex::split on [.!?]+ : the pieces between the maximal runs of terminal
\* marks, the empty pieces at either end included.
RECURSIVE re_split(_, _, _)
re_split(text, pos, cur) ==
  IF pos > Len(text) THEN <<cur>>
  ELSE IF text[pos] \in Terminal THEN
    IF pos < Len(text) /\ text[pos + 1] \in Terminal
    THEN re_split(text, pos + 1, cur)
    ELSE <<cur>> \o re_split(text, pos + 1, <<>>)
  ELSE re_split(text, pos + 1, Append(cur, text[pos]))

RECURSIVE trim_start(_)
trim_start(s) ==
  IF s # <<>> /\ Head(s) \in WhiteSpace THEN trim_start(Tail(s)) ELSE s

RECURSIVE trim_end(_)
trim_end(s) ==
  IF s # <<>> /\ s[Len(s)] \in WhiteSpace
  THEN trim_end(SubSeq(s, 1, Len(s) - 1)) ELSE s

trim(s) == trim_end(trim_start(s))

NonEmpty(s) == s # <<>>

split_sentences(text) ==
  LET kept == SelectSeq(re_split(text, 1, <<>>), NonEmpty)
  IN [i \in 1..Len(kept) |-> trim(kept[i])]

(***************************************************************************)
(* Hsk::analyze (main.rs:119-137).                                         *)
(***************************************************************************)
\* Fault injection: the levels are searched from the lowest up.
RECURSIVE find_map_level_fwd(_, _, _)
find_map_level_fwd(h, word, lvl) ==
  LET l == 8 - lvl
  IN IF lvl < 1 THEN None
     ELSE IF word \in DOMAIN h.levels[l] THEN Some(<<l, h.levels[l][word]>>)
     ELSE find_map_level_fwd(h, word, lvl - 1)

\* hsk_levels().rev().find_map(..): the search from level lvl downwards.
RECURSIVE find_map_level(_, _, _)
find_map_level(h, word, lvl) ==
  IF lvl < 1 THEN None
  ELSE IF word \in DOMAIN h.levels[lvl] THEN Some(<<lvl, h.levels[lvl][word]>>)
  ELSE find_map_level(h, word, lvl - 1)

\* Fault injection: the handles are not filtered by the sentence's level.
analyze_all(h, words) ==
  LET word_analysis == [i \in 1..Len(words) |-> find_map_level(h, words[i], 7)]
  IN IF \E i \in 1..Len(words) : word_analysis[i] = None THEN None
     ELSE IF words = <<>> THEN None
     ELSE Some([i \in 1..Len(words) |-> word_analysis[i][1][2]])

analyze(h, words) ==
  LET word_analysis == [i \in 1..Len(words) |-> find_map_level(h, words[i], 7)]
  IN IF \E i \in 1..Len(words) : word_analysis[i] = None THEN None
     ELSE IF words = <<>> THEN None
     ELSE LET lvl == SetMax({word_analysis[i][1][1] : i \in 1..Len(words)})
              idxs == [i \in 1..Len(words) |-> word_analysis[i][1][2]]
              AtLevel(idx) == h.phrases[idx].level = lvl
          IN Some(SelectSeq(idxs, AtLevel))

(***************************************************************************)
(* build_corpus (main.rs:148-224).                                         *)
(***************************************************************************)
\* Scores are in units of 1/10000.
SCORE_THRESHOLD == 8000
LEN_THRESHOLD == 10

\* html_escape::encode_safe (main.rs:167).
encode_safe_char(c) ==
  IF c = "&" THEN <<"&", "a", "m", "p", ";">>
  ELSE IF c = "<" THEN <<"&", "l", "t", ";">>
  ELSE IF c = ">" THEN <<"&", "g", "t", ";">>
  ELSE IF c = Quote THEN <<"&", "q", "u", "o", "t", ";">>
  ELSE IF c = "'" THEN <<"&", "#", "x", "2", "7", ";">>
  ELSE IF c = "/" THEN <<"&", "#", "x", "2", "F", ";">>
  ELSE <<c>>

encode_safe(text) == Concat([i \in 1..Len(text) |-> encode_safe_char(text[i])])

\* segmenter.cut (main.rs:173): every character is a word of its own.
cut(sentence) == [i \in 1..Len(sentence) |-> <<sentence[i]>>]

\* sentence.graphemes(true).count()
graphemes_count(sentence) == Len(sentence)

low_score(score) == score < SCORE_THRESHOLD

\* Fault injection: a sentence of exactly the minimum length is dropped.
too_short_le(sentence) == graphemes_count(sentence) <= LEN_THRESHOLD

too_short(sentence) == graphemes_count(sentence) < LEN_THRESHOLD

\* main.rs:170-177: None, or Some of the sentence and its phrases.
sentence_analysis(h, sentences) ==
  [i \in 1..Len(sentences) |->
     LET a == analyze(h, cut(sentences[i]))
     IN IF a = None THEN None
        ELSE Some([sentence |-> sentences[i], phrases |-> a[1]])]

\* main.rs:188-202: the neighbour, when there is one and it was analysed.
neighbour(sa, j) ==
  IF j >= 1 /\ j <= Len(sa) /\ sa[j] # None THEN Some(sa[j][1].sentence) ELSE None

\* main.rs:212-214
RECURSIVE push_ranges(_, _, _)
push_ranges(map, phrases, range) ==
  IF phrases = <<>> THEN map
  ELSE push_ranges([map EXCEPT ![Head(phrases)] = Append(@, range)],
                   Tail(phrases), range)

\* main.rs:179-215: the loop over the sentences of one line, from sentence i.
\* st is [byte_pos, file, phrase_map, log, npush].
RECURSIVE index_sentences(_, _, _, _)
index_sentences(st, sa, sentences, i) ==
  IF i > Len(sa) THEN st
  ELSE IF sa[i] = None THEN index_sentences(st, sa, sentences, i + 1)
  ELSE IF too_short(sa[i][1].sentence) THEN index_sentences(st, sa, sentences, i + 1)
  ELSE
    LET snippet == Snippet(neighbour(sa, i - 1), sa[i][1].sentence,
                           neighbour(sa, i + 1))
        w == write(st.byte_pos, st.file, snippet)
        phrases == sa[i][1].phrases
    IN index_sentences(
         [byte_pos |-> w.byte_pos,
          file |-> w.file,
          phrase_map |-> push_ranges(st.phrase_map, phrases, w.range),
          log |-> Append(st.log, [range |-> w.range, obj |-> snippet,
                                  i |-> i, sentences |-> sentences]),
          npush |-> st.npush + Len(phrases)],
         sa, sentences, i + 1)

\* main.rs:162-215: one line of a corpus file.
index_line(st, h, line) ==
  IF low_score(line.score) THEN st
  ELSE LET sentences == split_sentences(encode_safe(line.text))
       IN index_sentences(st, sentence_analysis(h, sentences), sentences, 1)

\* Fault injection: the list is left as it is.
dedup_none(v) == v

\* Vec::dedup (main.rs:220): consecutive equal elements are removed.
RECURSIVE dedup(_)
dedup(v) ==
  IF Len(v) <= 1 THEN v
  ELSE IF v[1] = v[2] THEN dedup(Tail(v))
  ELSE <<v[1]>> \o dedup(Tail(v))

(***************************************************************************)
(* build_decks (main.rs:299-344), up to the pairs handed to build_card.    *)
(***************************************************************************)
DECK_SIZE == 50

\* The random source of the shuffle: a stream of numbers fixed by its seed.
next_random(r) == (r * 13 + 7) % 64

\* SliceRandom::shuffle (main.rs:317): for i from the last index down to the
\* second, swap element i with a random element at or before i.
RECURSIVE shuffle(_, _, _)
shuffle(s, i, r) ==
  IF i < 2 THEN s
  ELSE LET j == (r % i) + 1
       IN shuffle([s EXCEPT ![i] = s[j], ![j] = s[i]], i - 1, next_random(r))

\* main.rs:319-328
sort_key(snippet) ==
  LET score == (IF snippet.prefix # None THEN 1 ELSE 0)
               + (IF snippet.suffix # None THEN 1 ELSE 0)
  IN -score

\* slice::sort_by_key: a stable sort; the keys lie in -2..2.
sort_by_key(s) ==
  Concat([k \in 1..5 |->
            LET HasKey(p) == sort_key(p.snippet) = k - 3 IN SelectSeq(s, HasKey)])

\* Fault injection: one pair too many is taken.
take_more(s) == SubSeq(s, 1, Min(DECK_SIZE + 1, Len(s)))

\* main.rs:335
take(s) == SubSeq(s, 1, Min(DECK_SIZE, Len(s)))

\* main.rs:303-315: the pairs of one level, every snippet read from the store.
level_reads(h, map, f, lvl) ==
  LET idxs == SelectSeq([i \in 1..Len(h.phrases) |-> i],
                        LAMBDA i : h.phrases[i].level = lvl)
  IN Concat([k \in 1..Len(idxs) |->
               [j \in 1..Len(map[idxs[k]]) |->
                  [res |-> read(f, map[idxs[k]][j]), phrase |-> idxs[k]]]])

(***************************************************************************)
(* Inputs.                                                                 *)
(***************************************************************************)
MaxLines == 2      \* lines of a corpus
NumSeeds == 2      \* seeds of the random source
MaxRows == 2       \* rows of a lexicon file (SpecHsk)
MaxWords == 3      \* words of a classified sentence (SpecHsk)
MaxWrites == 2     \* records written to a store (SpecStore)
MaxTextLen == 4    \* characters of a text (SpecSplit)

Rep(c, n) == [i \in 1..n |-> c]

RECURSIVE Cycle(_, _)
Cycle(s, n) == IF n = 0 THEN <<>> ELSE <<Head(s)>> \o Cycle(Tail(s) \o <<Head(s)>>, n - 1)

SeqsUpTo(S, n) == UNION {[1..k -> S] : k \in 0..n}

W(c) == <<c>>

\* Lexicon files.  "x" "y" "z" are vocabulary, "u" is in no lexicon.
LexFlat == << <<W("x"), W("1")>>, <<W("y"), W("1")>>, <<W("z"), W("1")>> >>
LexTiers == << <<W("x"), W("1")>>, <<W("y"), W("3")>>,
               <<W("z"), <<"7", "-", "9">> >>, <<W("x"), W("2")>> >>
LexHigh == << <<W("x"), W("1")>>, <<W("y"), W("8")>>, <<W("z"), W("2")>> >>
LexBad == << <<W("x"), W("1")>>, <<W("y"), <<"H", "S", "K">> >> >>
LexiconFiles == {LexFlat, LexTiers, LexHigh, LexBad}

\* Corpus lines.
Sxyz == Cycle(<<"x", "y", "z">>, LEN_THRESHOLD)
Syzx == Cycle(<<"y", "z", "x">>, LEN_THRESHOLD)
Szxy == Cycle(<<"z", "x", "y">>, LEN_THRESHOLD)
Sx == Rep("x", LEN_THRESHOLD)
Sshort == Rep("x", LEN_THRESHOLD - 1)
Sunknown == Sshort \o <<"u">>

Line(text, score) == [text |-> text, score |-> score]

LineRich == Line(Sxyz \o <<".">> \o Syzx \o <<"?">> \o Szxy, SCORE_THRESHOLD)
LineOne == Line(Sx, SCORE_THRESHOLD + 1000)
LineLow == Line(Sx \o <<"!">> \o Sxyz, SCORE_THRESHOLD - 1)
LineShort == Line(<<" ">> \o Sshort \o <<".">> \o Sx \o <<" ", "!">>, SCORE_THRESHOLD)
LineGap == Line(Sxyz \o <<".">> \o Sunknown \o <<"!", "!">> \o Sx, SCORE_THRESHOLD)
LineBlank == Line(Sx \o <<".", " ", ".">> \o Sxyz, SCORE_THRESHOLD)
LineAmp == Line(Sshort \o <<"&", ".">> \o Sx, SCORE_THRESHOLD)
Lines == {LineRich, LineOne, LineLow, LineShort, LineGap, LineBlank, LineAmp}

\* A corpus large enough to fill a deck: each rich line yields nine ranges of
\* level 1 under LexFlat.
BigCorpus == [i \in 1..((DECK_SIZE \div 9) + 2) |->
                IF i = 1 THEN LineOne ELSE LineRich]

Corpora == SeqsUpTo(Lines, MaxLines) \cup {BigCorpus}

\* Labels of lexicon rows (SpecHsk).
Labels == {W("1"), W("2"), W("6"), <<"7", "-", "9">>, W("7"), W("8"), W("0"),
           <<"1", "2">>, W("H")}
RowFiles == SeqsUpTo({W("x"), W("y")} \X Labels, MaxRows)
WordSeqs == SeqsUpTo({W("x"), W("y"), W("u")}, MaxWords)

\* Records of the store (SpecStore).
StoreStrs == {<<>>, <<"a">>, <<Quote, Backslash>>, <<"n", "u", "l", "l">>}
PrefixOpts == {None, Some(<<>>), Some(<<Backslash, "n">>)}
SuffixOpts == {None, Some(<<>>), Some(<<"a", Newline>>)}
StoreRecords ==
  {Snippet(p, s, x) : p \in PrefixOpts, s \in StoreStrs, x \in SuffixOpts}

\* Texts (SpecSplit).
Texts == SeqsUpTo({"A", " ", ".", "!"}, MaxTextLen)

(***************************************************************************)
(* The program: main (main.rs:346-365).                                    *)
(***************************************************************************)
NoEntry == [line |-> Line(<<>>, 0), log_len |-> 0, phrase_map |-> <<>>]

Init ==
  /\ pc = "read_hsk"
  /\ hskFile \in LexiconFiles
  /\ corpusFile \in Corpora
  /\ hsk = NoHsk /\ phrase_map = <<>>
  /\ byte_pos = 0 /\ file = <<>> /\ log = <<>> /\ entry = NoEntry /\ npush = 0
  /\ level = 0 /\ deck = <<>> /\ input = None /\ output = None

\* main.rs:347, and the start of build_corpus (main.rs:149-151).
ReadHsk ==
  /\ pc = "read_hsk"
  /\ LET r == read_hsk(hskFile)
     IN /\ pc' = IF r.ok THEN "build_corpus" ELSE "failed"
        /\ hsk' = r.val
        /\ phrase_map' = [i \in 1..Len(r.val.phrases) |-> <<>>]
  /\ UNCHANGED <<hskFile, corpusFile, byte_pos, file, log, entry, npush,
                 level, deck, input, output>>

\* One iteration of the loop over the corpus lines (main.rs:160-216).
BuildCorpusLine ==
  /\ pc = "build_corpus"
  /\ corpusFile # <<>>
  /\ LET st == index_line([byte_pos |-> byte_pos, file |-> file,
                           phrase_map |-> phrase_map, log |-> log,
                           npush |-> npush],
                          hsk, Head(corpusFile))
     IN /\ byte_pos' = st.byte_pos
        /\ file' = st.file
        /\ phrase_map' = st.phrase_map
        /\ log' = st.log
        /\ npush' = st.npush
  /\ entry' = [line |-> Head(corpusFile), log_len |-> Len(log),
               phrase_map |-> phrase_map]
  /\ corpusFile' = Tail(corpusFile)
  /\ UNCHANGED <<pc, hskFile, hsk, level, deck, input, output>>

\* The end of build_corpus (main.rs:219-223) and the load of the reader
\* (main.rs:300).
BuildCorpusDedup ==
  /\ pc = "build_corpus"
  /\ corpusFile = <<>>
  /\ phrase_map' = [i \in DOMAIN phrase_map |-> dedup(phrase_map[i])]
  /\ pc' = "build_decks"
  /\ UNCHANGED <<hskFile, corpusFile, hsk, byte_pos, file, log, entry, npush,
                 level, deck, input, output>>

\* One iteration of the loop over the levels (main.rs:302-341).
BuildDeck ==
  /\ pc = "build_decks"
  /\ \E seed \in 0..(NumSeeds - 1) :
       LET reads == level_reads(hsk, phrase_map, file, level + 1)
           snippets == [k \in 1..Len(reads) |->
                          [snippet |-> reads[k].res.val, phrase |-> reads[k].phrase]]
       IN IF \E k \in 1..Len(reads) : ~reads[k].res.ok
          THEN pc' = "panic" /\ deck' = <<>>
          ELSE /\ deck' = take(sort_by_key(shuffle(snippets, Len(snippets), seed)))
               /\ pc' = IF level + 1 = 7 THEN "done" ELSE "build_decks"
  /\ level' = level + 1
  /\ UNCHANGED <<hskFile, corpusFile, hsk, phrase_map, byte_pos, file, log,
                 entry, npush, input, output>>

Next == ReadHsk \/ BuildCorpusLine \/ BuildCorpusDedup \/ BuildDeck

Spec == Init /\ [][Next]_vars

(***************************************************************************)
(* The record store on its own: any records, written and then read back.   *)
(***************************************************************************)
NoRead == [i |-> 0, res |-> ReadErr]

StoreInit ==
  /\ pc = "store_write"
  /\ hskFile = <<>> /\ corpusFile = <<>> /\ hsk = NoHsk /\ phrase_map = <<>>
  /\ byte_pos = 0 /\ file = <<>> /\ log = <<>> /\ entry = NoEntry /\ npush = 0
  /\ level = 0 /\ deck = <<>> /\ input = None /\ output = NoRead

\* FileDbWriter::write (file_db.rs:25-36)
FileDbWriter_write ==
  /\ pc = "store_write"
  /\ Len(log) < MaxWrites
  /\ \E obj \in StoreRecords :
       LET w == write(byte_pos, file, obj)
       IN /\ byte_pos' = w.byte_pos
          /\ file' = w.file
          /\ log' = Append(log, [range |-> w.range, obj |-> obj])
  /\ UNCHANGED <<pc, hskFile, corpusFile, hsk, phrase_map, entry, npush, level,
                 deck, input, output>>

\* The writer is dropped and FileDbReader::load opens the file
\* (file_db.rs:45-50).
FileDbReader_load ==
  /\ pc = "store_write"
  /\ pc' = "store_read"
  /\ UNCHANGED <<hskFile, corpusFile, hsk, phrase_map, byte_pos, file, log,
                 entry, npush, level, deck, input, output>>

\* FileDbReader::read (file_db.rs:52-59) on a range some write returned.
FileDbReader_read ==
  /\ pc = "store_read"
  /\ \E i \in 1..Len(log) :
       output' = [i |-> i, res |-> read(file, log[i].range)]
  /\ UNCHANGED <<pc, hskFile, corpusFile, hsk, phrase_map, byte_pos, file, log,
                 entry, npush, level, deck, input>>

StoreNext == FileDbWriter_write \/ FileDbReader_load \/ FileDbReader_read

SpecStore == StoreInit /\ [][StoreNext]_vars

(***************************************************************************)
(* The lexicon and the classifier on their own: any lexicon file of a few  *)
(* rows, any short sequence of words.                                      *)
(***************************************************************************)
HskInit ==
  /\ pc = "read_hsk"
  /\ hskFile \in RowFiles
  /\ corpusFile = <<>> /\ hsk = NoHsk /\ phrase_map = <<>>
  /\ byte_pos = 0 /\ file = <<>> /\ log = <<>> /\ entry = NoEntry /\ npush = 0
  /\ level = 0 /\ deck = <<>> /\ input = None /\ output = None

\* Hsk::analyze (main.rs:120-136) on a sequence of words.
Analyze ==
  /\ pc = "build_corpus"
  /\ input = None
  /\ \E words \in WordSeqs :
       /\ input' = Some(words)
       /\ output' = analyze(hsk, words)
  /\ UNCHANGED <<pc, hskFile, corpusFile, hsk, phrase_map, byte_pos, file, log,
                 entry, npush, level, deck>>

HskNext == ReadHsk \/ Analyze

SpecHsk == HskInit /\ [][HskNext]_vars

(***************************************************************************)
(* split_sentences on its own: any short text.                             *)
(***************************************************************************)
SplitInit ==
  /\ pc = "split"
  /\ hskFile = <<>> /\ corpusFile = <<>> /\ hsk = NoHsk /\ phrase_map = <<>>
  /\ byte_pos = 0 /\ file = <<>> /\ log = <<>> /\ entry = NoEntry /\ npush = 0
  /\ level = 0 /\ deck = <<>> /\ input = None /\ output = None

SplitSentences ==
  /\ pc = "split"
  /\ input = None
  /\ \E text \in Texts :
       /\ input' = Some(text)
       /\ output' = split_sentences(text)
  /\ UNCHANGED <<pc, hskFile, corpusFile, hsk, phrase_map, byte_pos, file, log,
                 entry, npush, level, deck>>

SplitNext == SplitSentences

SpecSplit == SplitInit /\ [][SplitNext]_vars

(***************************************************************************)
(* Properties.                                                             *)
(***************************************************************************)
\* The lookups of the loaded lexicon, read independently of analyze.
Matched(word) == \E l \in hsk_levels : word \in DOMAIN hsk.levels[l]
TierOf(word) == SetMax({l \in hsk_levels : word \in DOMAIN hsk.levels[l]})
HandleOf(word) == hsk.levels[TierOf(word)][word]

\* The handles of the words matched at the highest tier of the sentence, in
\* the order of the words.
TopHandles(words) ==
  LET top == SelectSeq([i \in 1..Len(words) |-> i],
                       LAMBDA i : \A j \in 1..Len(words) :
                                    TierOf(words[j]) <= TierOf(words[i]))
  IN [k \in 1..Len(top) |-> HandleOf(words[top[k]])]

Analyzed == pc = "build_corpus" /\ input # None

\* C1 as stated: analyze returns nothing exactly when some word is in no
\* lookup, and otherwise the handles of the words of the highest matched tier.
C1_AsStated ==
  Analyzed =>
    output = IF \E i \in 1..Len(input[1]) : ~Matched(input[1][i])
             THEN None ELSE Some(TopHandles(input[1]))

\* C1, amended: analyze returns nothing when there is no word at all or some
\* word is in no lookup of tiers 1..7; otherwise every word is matched at the
\* highest tier that holds it and the result is exactly the handles of the
\* words whose tier is the highest of the sentence.
C1_Analyze ==
  Analyzed =>
    output = IF input[1] = <<>> \/ \E i \in 1..Len(input[1]) : ~Matched(input[1][i])
             THEN None ELSE Some(TopHandles(input[1]))

C1_Witness ==
  /\ Analyzed
  /\ output # None
  /\ Len(output[1]) >= 1
  /\ Len(output[1]) < Len(input[1])

\* C2: range integrity.  Every range of phrase_map[h] was returned by exactly
\* one write, and the sentence of the snippet of that write classifies to a
\* list that holds h, h being of the highest matched tier of that sentence.
C2_RangeIntegrity ==
  \A h \in DOMAIN phrase_map :
    \A j \in 1..Len(phrase_map[h]) :
      LET ks == {k \in 1..Len(log) : log[k].range = phrase_map[h][j]}
      IN /\ Cardinality(ks) = 1
         /\ \A k \in ks :
              LET words == cut(log[k].obj.sentence)
                  a == analyze(hsk, words)
              IN /\ a # None
                 /\ \E m \in 1..Len(a[1]) : a[1][m] = h
                 /\ \A i \in 1..Len(words) :
                      TierOf(words[i]) <= hsk.phrases[h].level
                 /\ \E i \in 1..Len(words) :
                      TierOf(words[i]) = hsk.phrases[h].level

C2_Witness ==
  /\ pc = "build_decks"
  /\ \E h \in DOMAIN phrase_map :
       \E k \in 1..Len(log) :
         /\ \E j \in 1..Len(phrase_map[h]) : phrase_map[h][j] = log[k].range
         /\ \E i \in 1..Len(log[k].obj.sentence) :
              TierOf(<<log[k].obj.sentence[i]>>) < hsk.phrases[h].level

C5_AsStated ==
  \A k \in 1..Len(log) :
    LET e == log[k]
    IN /\ e.obj.sentence = e.sentences[e.i]
       /\ e.obj.prefix = IF e.i > 1 THEN Some(e.sentences[e.i - 1]) ELSE None
       /\ e.obj.suffix = IF e.i < Len(e.sentences)
                         THEN Some(e.sentences[e.i + 1]) ELSE None

\* C6: a sentence of a corpus line causes exactly one write, and one range
\* appended per classified handle, if and only if the score of the line is
\* not below 0.8, the sentence classifies and it has at least 10 graphemes;
\* any other sentence causes no write and no change of phrase_map, and the
\* pass goes on.
C6_Filter ==
  (pc = "build_corpus" /\ entry # NoEntry) =>
    LET line == entry.line
        sentences == split_sentences(encode_safe(line.text))
        new == SubSeq(log, entry.log_len + 1, Len(log))
        Kept(i) == /\ line.score >= SCORE_THRESHOLD
                   /\ analyze(hsk, cut(sentences[i])) # None
                   /\ Len(sentences[i]) >= LEN_THRESHOLD
    IN /\ \A k \in 1..Len(new) :
            /\ new[k].i \in 1..Len(sentences)
            /\ new[k].obj.sentence = sentences[new[k].i]
       /\ \A i \in 1..Len(sentences) :
            Cardinality({k \in 1..Len(new) : new[k].i = i})
              = IF Kept(i) THEN 1 ELSE 0
       /\ \A h \in DOMAIN phrase_map :
            phrase_map[h] =
              entry.phrase_map[h] \o
              Concat([k \in 1..Len(new) |->
                        LET a == analyze(hsk, cut(new[k].obj.sentence))[1]
                        IN [m \in 1..Len(SelectSeq(a, LAMBDA x : x = h)) |->
                              new[k].range]])

C6_Witness ==
  /\ pc = "build_corpus"
  /\ entry.line = LineShort
  /\ Len(log) = entry.log_len + 1
  /\ \E h \in DOMAIN phrase_map : Len(phrase_map[h]) > Len(entry.phrase_map[h])

\* C7 as stated: split_sentences returns, in order, the trimmed pieces
\* between the runs of terminal marks, and no piece it returns is empty.
C7_AsStated ==
  (pc = "split" /\ input # None) =>
    LET pieces == re_split(input[1], 1, <<>>)
        trimmed == [i \in 1..Len(pieces) |-> trim(pieces[i])]
    IN /\ \A i \in 1..Len(output) : output[i] # <<>>
       /\ output = SelectSeq(trimmed, NonEmpty)

\* C8 as stated: the load succeeds only if every label is one of "1".."6" or
\* "7-9", so every loaded phrase has a level in 1..7.
ValidLabels == {W("1"), W("2"), W("3"), W("4"), W("5"), W("6"), <<"7", "-", "9">>}

C8_AsStated ==
  (pc = "build_corpus") =>
    /\ \A r \in 1..Len(hskFile) : hskFile[r][2] \in ValidLabels
    /\ \A i \in 1..Len(hsk.phrases) : hsk.phrases[i].level \in hsk_levels

\* C9: the pairs handed to card building for a level are min(50, N) pairs, N
\* the number of ranges of phrase_map over the phrases of the level; each
\* pair has a phrase of the level and a snippet read from a range of that
\* phrase; pairs with both contexts come before pairs with one, and those
\* before pairs with none.
LevelRanges(lvl) ==
  Concat([i \in 1..Len(hsk.phrases) |->
            IF hsk.phrases[i].level = lvl THEN phrase_map[i] ELSE <<>>])

Contexts(snippet) ==
  (IF snippet.prefix # None THEN 1 ELSE 0) + (IF snippet.suffix # None THEN 1 ELSE 0)

DeckBuilt == level >= 1 /\ pc \in {"build_decks", "done"}

C9_Deck ==
  DeckBuilt =>
    /\ Len(deck) = Min(50, Len(LevelRanges(level)))
    /\ \A k \in 1..Len(deck) :
         /\ hsk.phrases[deck[k].phrase].level = level
         /\ \E j \in 1..Len(phrase_map[deck[k].phrase]) :
              read(file, phrase_map[deck[k].phrase][j])
                = [ok |-> TRUE, val |-> deck[k].snippet]
    /\ \A k \in 1..(Len(deck) - 1) :
         Contexts(deck[k].snippet) >= Contexts(deck[k + 1].snippet)

C9_Witness ==
  /\ DeckBuilt
  /\ Len(LevelRanges(level)) > DECK_SIZE
  /\ Len(deck) = DECK_SIZE
  /\ Contexts(deck[1].snippet) = 2
  /\ Contexts(deck[DECK_SIZE].snippet) = 1

\* C10: once build_corpus has finished, the ranges of every handle increase
\* strictly by start, no range occurs twice anywhere in a list, and a second
\* dedup changes nothing.
C10_Dedup ==
  (pc \in {"build_decks", "done", "panic"}) =>
    \A h \in DOMAIN phrase_map :
      LET v == phrase_map[h]
      IN /\ \A j \in 1..(Len(v) - 1) : v[j].start < v[j + 1].start
         /\ \A j, k \in 1..Len(v) : j # k => v[j] # v[k]
         /\ dedup(v) = v

C10_Witness ==
  /\ pc = "build_decks"
  /\ \E h \in DOMAIN phrase_map : Len(phrase_map[h]) >= 2
  /\ npush > Len(Concat([h \in 1..Len(phrase_map) |-> phrase_map[h]]))

====
